---- MODULE Spec2Model ----
(***************************************************************************)
(* Model of the LunarCrushMCP session adapter (src/src/index.ts, the       *)
(* class starting at line 279).  The adapter's fields are the variables    *)
(* client, transport, connected and tools.  Every async method is cut at  *)
(* its awaits: the code between two awaits runs to completion and is one   *)
(* action; the answer of the MCP client library to a pending request is an *)
(* input chosen by the action that resumes the method.                     *)
(***************************************************************************)
EXTENDS Integers, Sequences, FiniteSets, TLC

VARIABLES client, transport, connected, tools, nextHandle, opened, closeAttempted, tasks

vars == <<client, transport, connected, tools, nextHandle, opened, closeAttempted, tasks>>

----------------------------------------------------------------------------
(* Bounds *)

\* Number of Client objects the callers create over one behaviour.
MaxHandles == 2

\* Longest batch handed to callTools.
MaxBatch == 2

----------------------------------------------------------------------------
(* Values *)

\* `null` of a Client | null or SSEClientTransport | null field.
Null == 0

\* Call slots, one per caller of the instance.  Spec has the single caller
\* the adapter is written for, who starts a call when the previous one has
\* completed; the slot of a second caller stays empty in it.
Slots == {"main", "other"}

UNDEFINED == "<undefined>"

\* Tool names a caller may ask for; "C" is never advertised by the endpoint.
Names == {"A", "B", "C"}

\* Names a caller may look up with getTool: those, and one that differs from
\* an advertised name only in case.
LookupNames == Names \cup {"a"}

\* A tool as the endpoint's list-tools answer carries it.
Raw(n, d, s) == [name |-> n, description |-> d, inputSchema |-> s, annotations |-> "hint"]

\* The answers the endpoint may give to list-tools.
ServerLists ==
    { <<>>,
      <<Raw("A", "about A", "schemaA")>>,
      <<Raw("A", "about A", "schemaA"), Raw("B", UNDEFINED, UNDEFINED)>>,
      <<Raw("A", "about A", "schemaA"), Raw("A", "other A", "schemaA2")>> }

\* Argument values: `undefined` (argument omitted) or an object, given by
\* its set of <<key, value>> entries.
Undefined == [kind |-> "undefined", fields |-> {}]
Obj(f) == [kind |-> "object", fields |-> f]
ArgValues == {Undefined, Obj({}), Obj({<<"topic", "bitcoin">>})}

\* Results the endpoint may give to call-tool.
Results == { [content |-> "data", isError |-> FALSE],
             [content |-> "invalid arguments", isError |-> TRUE] }

\* A thrown value: an Error with a message (a sequence of string pieces,
\* <<>> being the empty string), or a value that is not an Error.
Err(msg) == [isError |-> TRUE, message |-> msg]
NonError == [isError |-> FALSE, message |-> <<>>]

\* What the client library may reject a request with.
Causes == {Err(<<"boom">>), Err(<<>>), NonError}

Ok(v) == [status |-> "ok", value |-> v]
Throw(e) == [status |-> "error", value |-> e]

----------------------------------------------------------------------------
(* Error messages of index.ts *)

NotConnectedMsg == <<"Not connected to LunarCrush MCP. Call connect() first.">>
NotInitializedMsg == <<"MCP client not initialized">>
ConnectPrefix == "Failed to connect to LunarCrush MCP: "
RefreshPrefix == "Failed to refresh tools: "
UnknownErrorMsg == <<"Unknown error">>

\* error instanceof Error ? error.message : 'Unknown error'
MessageOf(e) == IF e.isError THEN e.message ELSE UnknownErrorMsg

ConnectionError(e) == Err(<<ConnectPrefix>> \o MessageOf(e))
ToolListError(e) == Err(<<RefreshPrefix>> \o MessageOf(e))

RECURSIVE Join(_, _)
Join(seq, sep) ==
    IF Len(seq) = 0 THEN <<>>
    ELSE IF Len(seq) = 1 THEN <<seq[1]>>
    ELSE <<seq[1], sep>> \o Join(Tail(seq), sep)

ToolNames(ts) == [i \in 1..Len(ts) |-> ts[i].name]

UnknownToolError(name, ts) ==
    Err(<<"Tool '", name, "' not found. Available tools: ">> \o Join(ToolNames(ts), ", "))

----------------------------------------------------------------------------
(* Calls *)

\* A request handed to the MCP client library.
Req(method, h, name, args) == [method |-> method, handle |-> h, name |-> name, args |-> args]

Pending == [status |-> "pending", value |-> <<>>]

\* Whether the call t was a disconnect(), and what its close() did.
HowDisconnected(t) ==
    IF t.op # "disconnect" THEN "none"
    ELSE IF t.swallowed # <<>> THEN "closeFailed"
    ELSE IF t.reqs # <<>> THEN "closed"
    ELSE "noClient"

\* The adapter's fields as a call finds them when it starts, and how the
\* call that completed before it in the slot disconnected, if it did.
Snapshot(s) ==
    [connected |-> connected, client |-> client, transport |-> transport,
     tools |-> tools, lastDisconnect |-> HowDisconnected(tasks[s])]

NoTask ==
    [op |-> "none", pc |-> "done", name |-> "", args |-> Undefined, text |-> <<>>, batch |-> <<>>,
     shares |-> FALSE, mutated |-> FALSE,
     calls |-> <<>>, overtaken |-> FALSE, reqs |-> <<>>, resps |-> <<>>, swallowed |-> <<>>, out |-> Pending,
     pre |-> [connected |-> FALSE, client |-> Null, transport |-> Null,
              tools |-> <<>>, lastDisconnect |-> "none"]]

\* A call of `op` entering slot s.
Begin(s, op, name, args) ==
    [op |-> op, pc |-> "start", name |-> name, args |-> args, text |-> <<>>, batch |-> <<>>,
     shares |-> FALSE, mutated |-> FALSE,
     calls |-> <<>>, overtaken |-> FALSE, reqs |-> <<>>, resps |-> <<>>, swallowed |-> <<>>, out |-> Pending,
     pre |-> Snapshot(s)]

\* The call in slot s returned or threw.
Settled(t, out) == [t EXCEPT !.pc = "done", !.out = out]

\* The client library answered the pending request of the call: resolved
\* with a value or rejected with a cause.
Resolved(v) == [ok |-> TRUE, value |-> v]
Rejected(c) == [ok |-> FALSE, value |-> c]
Answered(t, a) == [t EXCEPT !.resps = @ \o <<a>>]

\* The call in slot s sent `req` and is suspended at `pc`.
Suspended(t, pc, req) == [t EXCEPT !.pc = pc, !.reqs = @ \o <<req>>]

Free(s) == tasks[s].pc = "done"

Init ==
    /\ client = Null
    /\ transport = Null
    /\ connected = FALSE
    /\ tools = <<>>
    /\ nextHandle = 1
    /\ opened = {}
    /\ closeAttempted = {}
    /\ tasks = [s \in Slots |-> NoTask]

----------------------------------------------------------------------------
(* isConnected, getStatus, ensureConnected *)

IsConnectedValue == connected /\ client # Null

\* Variant of GetStatusValue that counts the distinct tool names.
GetStatusValue_CountsNames ==
    [connected |-> connected,
     toolCount |-> Cardinality({tools[i].name : i \in 1..Len(tools)}),
     tools |-> ToolNames(tools)]

GetStatusValue ==
    [connected |-> connected, toolCount |-> Len(tools), tools |-> ToolNames(tools)]

\* Variant of EnsureConnectedThrows with && in place of ||.
EnsureConnectedThrows_Both == ~connected /\ client = Null

\* ensureConnected() throws
EnsureConnectedThrows == ~connected \/ client = Null

NotConnectedError == Err(NotConnectedMsg)

IsConnected(s) ==
    /\ Free(s)
    /\ tasks' = [tasks EXCEPT ![s] = Settled(Begin(s, "isConnected", "", Undefined), Ok(IsConnectedValue))]
    /\ UNCHANGED <<client, transport, connected, tools, nextHandle, opened, closeAttempted>>

GetStatus(s) ==
    /\ Free(s)
    /\ tasks' = [tasks EXCEPT ![s] = Settled(Begin(s, "getStatus", "", Undefined), Ok(GetStatusValue))]
    /\ UNCHANGED <<client, transport, connected, tools, nextHandle, opened, closeAttempted>>

----------------------------------------------------------------------------
(* getTools, getTool *)

\* this.tools.find((tool) => tool.name === name) || null
NoTool == [name |-> "<null>", description |-> UNDEFINED, inputSchema |-> UNDEFINED]

\* Variant of Find that returns the last tool of the name.
RECURSIVE Find_Last(_, _)
Find_Last(ts, name) ==
    IF Len(ts) = 0 THEN NoTool
    ELSE IF ts[Len(ts)].name = name THEN ts[Len(ts)]
    ELSE Find_Last(SubSeq(ts, 1, Len(ts) - 1), name)

RECURSIVE Find(_, _)
Find(ts, name) ==
    IF Len(ts) = 0 THEN NoTool
    ELSE IF ts[1].name = name THEN ts[1]
    ELSE Find(Tail(ts), name)

GetToolsOutcome == IF EnsureConnectedThrows THEN Throw(NotConnectedError) ELSE Ok(tools)

GetToolOutcome(name) ==
    IF EnsureConnectedThrows THEN Throw(NotConnectedError) ELSE Ok(Find(tools, name))

\* Variant of GetTools that returns this.tools itself.
GetTools_ReturnsCache(s) ==
    /\ Free(s)
    /\ tasks' = [tasks EXCEPT ![s] =
                    [Settled(Begin(s, "getTools", "", Undefined), GetToolsOutcome)
                        EXCEPT !.shares = ~EnsureConnectedThrows]]
    /\ UNCHANGED <<client, transport, connected, tools, nextHandle, opened, closeAttempted>>

\* getTools(): the array returned is a new one, [...this.tools].
GetTools(s) ==
    /\ Free(s)
    /\ tasks' = [tasks EXCEPT ![s] = Settled(Begin(s, "getTools", "", Undefined), GetToolsOutcome)]
    /\ UNCHANGED <<client, transport, connected, tools, nextHandle, opened, closeAttempted>>

\* What a caller may do to an array it holds: push an entry, pop the last
\* one, reverse the order.
Mutations == {"push", "pop", "reverse"}

RECURSIVE Reverse(_)
Reverse(q) == IF Len(q) = 0 THEN <<>> ELSE Reverse(Tail(q)) \o <<Head(q)>>

Mutate(m, q) ==
    CASE m = "push" -> q \o <<[name |-> "C", description |-> "made up", inputSchema |-> UNDEFINED]>>
      [] m = "pop" -> IF Len(q) = 0 THEN q ELSE SubSeq(q, 1, Len(q) - 1)
      [] m = "reverse" -> Reverse(q)

\* The caller changes the array getTools() returned to it.  The change is
\* seen through every reference to that array: this.tools too, if it is the
\* same array.
CallerMutates(s, m) ==
    /\ tasks[s].op = "getTools"
    /\ tasks[s].pc = "done"
    /\ tasks[s].out.status = "ok"
    /\ ~tasks[s].mutated
    /\ tasks' = [tasks EXCEPT ![s].out.value = Mutate(m, @), ![s].mutated = TRUE]
    /\ tools' = IF tasks[s].shares THEN Mutate(m, tools) ELSE tools
    /\ UNCHANGED <<client, transport, connected, nextHandle, opened, closeAttempted>>

GetTool(s, name) ==
    /\ Free(s)
    /\ tasks' = [tasks EXCEPT ![s] = Settled(Begin(s, "getTool", name, Undefined), GetToolOutcome(name))]
    /\ UNCHANGED <<client, transport, connected, tools, nextHandle, opened, closeAttempted>>

----------------------------------------------------------------------------
(* getToolsWithDetails *)

\* A variant of an anyOf union: one with an enum, or one with a type only.
EnumOf(vals) == [hasEnum |-> TRUE, enum |-> vals, type |-> UNDEFINED]
TypeOnly(t) == [hasEnum |-> FALSE, enum |-> <<>>, type |-> t]

\* A property of a schema: the key and its descriptor, which has a type or
\* not, an anyOf list or not, and may be null in the place of an object.
Prop(key, type, hasAnyOf, anyOf) ==
    [key |-> key, isNull |-> FALSE, type |-> type, hasAnyOf |-> hasAnyOf, anyOf |-> anyOf]
NullProp(key) ==
    [key |-> key, isNull |-> TRUE, type |-> UNDEFINED, hasAnyOf |-> FALSE, anyOf |-> <<>>]

\* An input schema: its properties in key order and its required list, each
\* of which may be missing.
Schema(hasProperties, properties, hasRequired, required) ==
    [hasProperties |-> hasProperties, properties |-> properties,
     hasRequired |-> hasRequired, required |-> required]

\* The schemas behind the identifiers the endpoint's tools carry.
\*   schemaA:   required ["topic"], properties {topic: {type: "string"},
\*              metrics: {anyOf: [{enum: ["price", "volume"]}]}}
\*   schemaA2:  no required list; properties {interval: {anyOf: [{type: "null"},
\*              {enum: ["1d", "1w"]}, {enum: ["1h"]}]}, limit: {type: "number",
\*              anyOf: [{enum: ["10"]}]}, note: {}, sort: {anyOf: [{type: "string"}]}}
\*   schemaReq: required ["id"], no properties
\*   schemaNull: properties {topic: {type: "string"}, extra: null}
\*   undefined, or any other identifier: {}
SchemaOf(id) ==
    CASE id = "schemaA" ->
            Schema(TRUE, << Prop("topic", "string", FALSE, <<>>),
                            Prop("metrics", UNDEFINED, TRUE, <<EnumOf(<<"price", "volume">>)>>) >>,
                   TRUE, <<"topic">>)
      [] id = "schemaA2" ->
            Schema(TRUE, << Prop("interval", UNDEFINED, TRUE,
                                 <<TypeOnly("null"), EnumOf(<<"1d", "1w">>), EnumOf(<<"1h">>)>>),
                            Prop("limit", "number", TRUE, <<EnumOf(<<"10">>)>>),
                            Prop("note", UNDEFINED, FALSE, <<>>),
                            Prop("sort", UNDEFINED, TRUE, <<TypeOnly("string")>>) >>,
                   FALSE, <<>>)
      [] id = "schemaReq" -> Schema(FALSE, <<>>, TRUE, <<"id">>)
      [] id = "schemaNull" ->
            Schema(TRUE, <<Prop("topic", "string", FALSE, <<>>), NullProp("extra")>>,
                   FALSE, <<>>)
      [] OTHER -> Schema(FALSE, <<>>, FALSE, <<>>)

\* schema.properties || {}, schema.required || []
PropertiesOf(schema) == IF schema.hasProperties THEN schema.properties ELSE <<>>
RequiredOf(schema) == IF schema.hasRequired THEN schema.required ELSE <<>>

Includes(q, x) == \E i \in 1..Len(q) : q[i] = x

\* Variant of Optional without the filter: every property name.
RECURSIVE Optional_All(_, _)
Optional_All(props, required) ==
    IF Len(props) = 0 THEN <<>>
    ELSE <<props[1].key>> \o Optional_All(Tail(props), required)

\* Object.keys(properties).filter((key) => !required.includes(key))
RECURSIVE Optional(_, _)
Optional(props, required) ==
    IF Len(props) = 0 THEN <<>>
    ELSE (IF Includes(required, props[1].key) THEN <<>> ELSE <<props[1].key>>)
             \o Optional(Tail(props), required)

\* prop.anyOf.find((item) => item.enum)
NoVariant == [hasEnum |-> FALSE, enum |-> <<>>, type |-> "<none>"]

RECURSIVE FindEnum(_)
FindEnum(anyOf) ==
    IF Len(anyOf) = 0 THEN NoVariant
    ELSE IF anyOf[1].hasEnum THEN anyOf[1]
    ELSE FindEnum(Tail(anyOf))

\* The forEach over the properties: what it adds to types and enums (sets
\* of <<key, value>> entries), and whether it threw on reading a field of a
\* descriptor that is null.
NoInfo == [threw |-> FALSE, types |-> {}, enums |-> {}]

RECURSIVE ForEachProperty(_, _)
ForEachProperty(props, info) ==
    IF Len(props) = 0 THEN info
    ELSE LET prop == props[1]
             enumType == FindEnum(prop.anyOf)
         IN  IF prop.isNull THEN [info EXCEPT !.threw = TRUE]
             ELSE IF prop.type # UNDEFINED
             THEN ForEachProperty(Tail(props),
                      [info EXCEPT !.types = @ \cup {<<prop.key, prop.type>>}])
             ELSE IF prop.hasAnyOf /\ enumType # NoVariant
             THEN ForEachProperty(Tail(props),
                      [info EXCEPT !.types = @ \cup {<<prop.key, "enum">>},
                                   !.enums = @ \cup {<<prop.key, enumType.enum>>}])
             ELSE ForEachProperty(Tail(props), info)

\* TypeError: Cannot read properties of null (reading 'type')
NullPropertyError == Err(<<"Cannot read properties of null (reading 'type')">>)

\* tool.description || `Call ${tool.name} tool`, as string pieces
DescriptionOf(tool) ==
    IF tool.description = UNDEFINED \/ tool.description = ""
    THEN <<"Call ", tool.name, " tool">>
    ELSE <<tool.description>>

\* The entry the map callback returns for a tool whose forEach did not
\* throw.
Details(tool) ==
    LET schema == SchemaOf(tool.inputSchema)
        info == ForEachProperty(PropertiesOf(schema), NoInfo)
    IN  [name |-> tool.name,
         description |-> DescriptionOf(tool),
         schema |-> IF tool.inputSchema = UNDEFINED THEN "{}" ELSE tool.inputSchema,
         parameterInfo |->
            [required |-> RequiredOf(schema),
             optional |-> Optional(PropertiesOf(schema), RequiredOf(schema)),
             types |-> info.types,
             enums |-> info.enums]]

DetailsThrows(tool) ==
    ForEachProperty(PropertiesOf(SchemaOf(tool.inputSchema)), NoInfo).threw

GetToolsWithDetailsOutcome ==
    IF \E i \in 1..Len(tools) : DetailsThrows(tools[i])
    THEN Throw(NullPropertyError)
    ELSE Ok([i \in 1..Len(tools) |-> Details(tools[i])])

\* getToolsWithDetails(): no ensureConnected, the map over this.tools.
GetToolsWithDetails(s) ==
    /\ Free(s)
    /\ tasks' = [tasks EXCEPT ![s] =
                    Settled(Begin(s, "getToolsWithDetails", "", Undefined),
                            GetToolsWithDetailsOutcome)]
    /\ UNCHANGED <<client, transport, connected, tools, nextHandle, opened, closeAttempted>>

----------------------------------------------------------------------------
(* refreshTools *)

\* tools.map((tool) => ({ name, description, inputSchema }))
MapTools(raw) ==
    [i \in 1..Len(raw) |->
        [name |-> raw[i].name, description |-> raw[i].description,
         inputSchema |-> raw[i].inputSchema]]

\* refreshTools() up to its await: the guard on this.client, then the
\* list-tools request on the current client.
RefreshToolsCall(s, t) ==
    IF client = Null
    THEN Settled(t, Throw(Err(NotInitializedMsg)))
    ELSE Suspended(t, "listTools", Req("listTools", client, "", Undefined))

RefreshTools(s) ==
    /\ Free(s)
    /\ tasks' = [tasks EXCEPT ![s] = RefreshToolsCall(s, Begin(s, "refreshTools", "", Undefined))]
    /\ UNCHANGED <<client, transport, connected, tools, nextHandle, opened, closeAttempted>>

\* Variant of RefreshToolsResolve that adds the fetched tools to the cache
\* in place of replacing it.
RefreshToolsResolve_Merges(s, raw) ==
    /\ tasks[s].op = "refreshTools"
    /\ tasks[s].pc = "listTools"
    /\ tools' = tools \o MapTools(raw)
    /\ tasks' = [tasks EXCEPT ![s] =
                    Settled(Answered(@, Resolved(raw)), Ok(tools \o MapTools(raw)))]
    /\ UNCHANGED <<client, transport, connected, nextHandle, opened, closeAttempted>>

\* listTools() resolved with `raw`: the cache is replaced and returned.
RefreshToolsResolve(s, raw) ==
    /\ tasks[s].op = "refreshTools"
    /\ tasks[s].pc = "listTools"
    /\ tools' = MapTools(raw)
    /\ tasks' = [tasks EXCEPT ![s] = Settled(Answered(@, Resolved(raw)), Ok(MapTools(raw)))]
    /\ UNCHANGED <<client, transport, connected, nextHandle, opened, closeAttempted>>

\* Variant of RefreshToolsReject that empties the cache before it throws.
RefreshToolsReject_ClearsCache(s, cause) ==
    /\ tasks[s].op = "refreshTools"
    /\ tasks[s].pc = "listTools"
    /\ tools' = <<>>
    /\ tasks' = [tasks EXCEPT ![s] = Settled(Answered(@, Rejected(cause)), Throw(ToolListError(cause)))]
    /\ UNCHANGED <<client, transport, connected, nextHandle, opened, closeAttempted>>

\* listTools() rejected with `cause`: the catch block wraps it.
RefreshToolsReject(s, cause) ==
    /\ tasks[s].op = "refreshTools"
    /\ tasks[s].pc = "listTools"
    /\ tasks' = [tasks EXCEPT ![s] = Settled(Answered(@, Rejected(cause)), Throw(ToolListError(cause)))]
    /\ UNCHANGED <<client, transport, connected, tools, nextHandle, opened, closeAttempted>>

----------------------------------------------------------------------------
(* connect *)

\* Variant of Connect that sets the connected flag before the handshake.
Connect_ConnectedEarly(s) ==
    /\ Free(s)
    /\ nextHandle <= MaxHandles
    /\ transport' = nextHandle
    /\ client' = nextHandle
    /\ nextHandle' = nextHandle + 1
    /\ connected' = TRUE
    /\ tasks' = [tasks EXCEPT ![s] =
                    Suspended(Begin(s, "connect", "", Undefined), "handshake",
                              Req("connect", nextHandle, "", Undefined))]
    /\ UNCHANGED <<tools, opened, closeAttempted>>

\* connect() up to await this.client.connect(this.transport): the transport
\* and the client are created and stored; the client library starts the
\* transport inside its connect, so a transport that cannot be set up shows
\* as a rejected handshake.
Connect(s) ==
    /\ Free(s)
    /\ nextHandle <= MaxHandles
    /\ transport' = nextHandle
    /\ client' = nextHandle
    /\ nextHandle' = nextHandle + 1
    /\ tasks' = [tasks EXCEPT ![s] =
                    Suspended(Begin(s, "connect", "", Undefined), "handshake",
                              Req("connect", nextHandle, "", Undefined))]
    /\ UNCHANGED <<connected, tools, opened, closeAttempted>>

\* The handshake failed.
ConnectHandshakeReject(s, cause) ==
    /\ tasks[s].op = "connect"
    /\ tasks[s].pc = "handshake"
    /\ tasks' = [tasks EXCEPT ![s] = Settled(Answered(@, Rejected(cause)), Throw(ConnectionError(cause)))]
    /\ UNCHANGED <<client, transport, connected, tools, nextHandle, opened, closeAttempted>>

\* The handshake succeeded: connect() goes on to await this.refreshTools(),
\* whose own guard may throw into connect's catch block.
ConnectHandshakeResolve(s) ==
    /\ tasks[s].op = "connect"
    /\ tasks[s].pc = "handshake"
    /\ opened' = opened \cup {tasks[s].reqs[1].handle}
    /\ tasks' = [tasks EXCEPT ![s] =
                    IF client = Null
                    THEN Settled(Answered(@, Resolved(<<>>)),
                                 Throw(ConnectionError(Err(NotInitializedMsg))))
                    ELSE RefreshToolsCall(s, Answered(@, Resolved(<<>>)))]
    /\ UNCHANGED <<client, transport, connected, tools, nextHandle, closeAttempted>>

\* The initial fetch failed: refreshTools wraps the cause, connect wraps that.
ConnectFetchReject(s, cause) ==
    /\ tasks[s].op = "connect"
    /\ tasks[s].pc = "listTools"
    /\ tasks' = [tasks EXCEPT ![s] =
                    Settled(Answered(@, Rejected(cause)), Throw(ConnectionError(ToolListError(cause))))]
    /\ UNCHANGED <<client, transport, connected, tools, nextHandle, opened, closeAttempted>>

\* The initial fetch succeeded: refreshTools stores the cache and resolves.
ConnectFetchResolve(s, raw) ==
    /\ tasks[s].op = "connect"
    /\ tasks[s].pc = "listTools"
    /\ tools' = MapTools(raw)
    /\ tasks' = [tasks EXCEPT ![s] = [Answered(@, Resolved(raw)) EXCEPT !.pc = "fetched"]]
    /\ UNCHANGED <<client, transport, connected, nextHandle, opened, closeAttempted>>

\* connect() resumes after await this.refreshTools(): this.connected = true.
ConnectFinish(s) ==
    /\ tasks[s].op = "connect"
    /\ tasks[s].pc = "fetched"
    /\ connected' = TRUE
    /\ tasks' = [tasks EXCEPT ![s] = Settled(@, Ok(<<>>))]
    /\ UNCHANGED <<client, transport, tools, nextHandle, opened, closeAttempted>>

----------------------------------------------------------------------------
(* disconnect *)

\* disconnect() with no client: the fields are reset at once.
DisconnectNoClient(s) ==
    /\ Free(s)
    /\ client = Null
    /\ transport' = Null
    /\ connected' = FALSE
    /\ tools' = <<>>
    /\ tasks' = [tasks EXCEPT ![s] = Settled(Begin(s, "disconnect", "", Undefined), Ok(<<>>))]
    /\ UNCHANGED <<client, nextHandle, opened, closeAttempted>>

\* disconnect() with a client, up to await this.client.close().
Disconnect(s) ==
    /\ Free(s)
    /\ client # Null
    /\ closeAttempted' = closeAttempted \cup {client}
    /\ tasks' = [tasks EXCEPT ![s] =
                    Suspended(Begin(s, "disconnect", "", Undefined), "close",
                              Req("close", client, "", Undefined))]
    /\ UNCHANGED <<client, transport, connected, tools, nextHandle, opened>>

\* close() resolved: the fields are reset.
DisconnectCloseResolve(s) ==
    /\ tasks[s].op = "disconnect"
    /\ tasks[s].pc = "close"
    /\ client' = Null
    /\ transport' = Null
    /\ connected' = FALSE
    /\ tools' = <<>>
    /\ tasks' = [tasks EXCEPT ![s] = Settled(Answered(@, Resolved(<<>>)), Ok(<<>>))]
    /\ UNCHANGED <<nextHandle, opened, closeAttempted>>

\* Variant of DisconnectCloseReject without the try/catch: the close error
\* escapes and the fields are not reset.
DisconnectCloseReject_Rethrows(s, cause) ==
    /\ tasks[s].op = "disconnect"
    /\ tasks[s].pc = "close"
    /\ tasks' = [tasks EXCEPT ![s] = Settled(Answered(@, Rejected(cause)), Throw(cause))]
    /\ UNCHANGED <<client, transport, connected, tools, nextHandle, opened, closeAttempted>>

\* close() rejected with `cause`: the empty catch block drops it and the
\* fields are reset all the same.
DisconnectCloseReject(s, cause) ==
    /\ tasks[s].op = "disconnect"
    /\ tasks[s].pc = "close"
    /\ client' = Null
    /\ transport' = Null
    /\ connected' = FALSE
    /\ tools' = <<>>
    /\ tasks' = [tasks EXCEPT ![s] =
                    Settled([Answered(@, Rejected(cause)) EXCEPT !.swallowed = @ \o <<cause>>],
                            Ok(<<>>))]
    /\ UNCHANGED <<nextHandle, opened, closeAttempted>>

----------------------------------------------------------------------------
(* callTool *)

\* args: Record<string, any> = {}
DefaultArgs(a) == IF a = Undefined THEN Obj({}) ELSE a

\* Variant of CallToolCall without the lookup: every name is forwarded.
CallToolCall_NoLookup(name, args) ==
    IF EnsureConnectedThrows
    THEN [threw |-> TRUE, error |-> NotConnectedError, req |-> <<>>]
    ELSE [threw |-> FALSE, error |-> <<>>, req |-> Req("callTool", client, name, args)]

\* callTool(name, args) up to its await: ensureConnected, the lookup in the
\* cache, then the call-tool request with the name and the arguments.
CallToolCall(name, args) ==
    IF EnsureConnectedThrows
    THEN [threw |-> TRUE, error |-> NotConnectedError, req |-> <<>>]
    ELSE IF Find(tools, name) = NoTool
    THEN [threw |-> TRUE, error |-> UnknownToolError(name, tools), req |-> <<>>]
    ELSE [threw |-> FALSE, error |-> <<>>, req |-> Req("callTool", client, name, args)]

CallTool(s, name, args) ==
    /\ Free(s)
    /\ LET t == Begin(s, "callTool", name, args)
           c == CallToolCall(name, DefaultArgs(args))
       IN  tasks' = [tasks EXCEPT ![s] =
                        IF c.threw THEN Settled(t, Throw(c.error))
                        ELSE Suspended(t, "callTool", c.req)]
    /\ UNCHANGED <<client, transport, connected, tools, nextHandle, opened, closeAttempted>>

\* Variant of CallToolResolve that throws when the result carries the error
\* flag.
CallToolResolve_ThrowsOnErrorFlag(s, result) ==
    /\ tasks[s].op = "callTool"
    /\ tasks[s].pc = "callTool"
    /\ tasks' = [tasks EXCEPT ![s] =
                    Settled(Answered(@, Resolved(result)),
                            IF result.isError THEN Throw(Err(<<result.content>>)) ELSE Ok(result))]
    /\ UNCHANGED <<client, transport, connected, tools, nextHandle, opened, closeAttempted>>

\* The endpoint answered: return result as MCPToolResult.
CallToolResolve(s, result) ==
    /\ tasks[s].op \in {"callTool", "executeFunction"}
    /\ tasks[s].pc = "callTool"
    /\ tasks' = [tasks EXCEPT ![s] = Settled(Answered(@, Resolved(result)), Ok(result))]
    /\ UNCHANGED <<client, transport, connected, tools, nextHandle, opened, closeAttempted>>

\* Variant of CallToolReject that takes a failed request for a lost
\* connection and clears the connected flag.
CallToolReject_MarksDisconnected(s, cause) ==
    /\ tasks[s].op \in {"callTool", "executeFunction"}
    /\ tasks[s].pc = "callTool"
    /\ connected' = FALSE
    /\ tasks' = [tasks EXCEPT ![s] = Settled(Answered(@, Rejected(cause)), Throw(cause))]
    /\ UNCHANGED <<client, transport, tools, nextHandle, opened, closeAttempted>>

\* Variant of CallToolReject that wraps the cause in a new Error.
CallToolReject_Wraps(s, cause) ==
    /\ tasks[s].op = "callTool"
    /\ tasks[s].pc = "callTool"
    /\ tasks' = [tasks EXCEPT ![s] =
                    Settled(Answered(@, Rejected(cause)),
                            Throw(Err(<<"Tool call failed: ">> \o MessageOf(cause))))]
    /\ UNCHANGED <<client, transport, connected, tools, nextHandle, opened, closeAttempted>>

\* The request failed: catch (error) { throw error; }
CallToolReject(s, cause) ==
    /\ tasks[s].op \in {"callTool", "executeFunction"}
    /\ tasks[s].pc = "callTool"
    /\ tasks' = [tasks EXCEPT ![s] = Settled(Answered(@, Rejected(cause)), Throw(cause))]
    /\ UNCHANGED <<client, transport, connected, tools, nextHandle, opened, closeAttempted>>

----------------------------------------------------------------------------
(* executeFunction *)

\* A JSON text, as the sequence of its tokens: punctuation, string literals
\* and bare words.
Tok(t, v) == [t |-> t, v |-> v]
LBrace == Tok("{", "")
RBrace == Tok("}", "")
Colon == Tok(":", "")
Comma == Tok(",", "")
StrTok(v) == Tok("string", v)
WordTok(w) == Tok("word", w)

\* The value `null`, and the marker of an argument that is a string (the
\* string itself is the call's `text`).
NullArg == [kind |-> "null", fields |-> {}]
Text == [kind |-> "string", fields |-> {}]

\* The strings a caller may give as functionArgs: '{}', '{"topic":"bitcoin"}',
\* 'null', '{bad json', '{"topic":"bitcoin",}' and ''.
JsonTexts ==
    { <<LBrace, RBrace>>,
      <<LBrace, StrTok("topic"), Colon, StrTok("bitcoin"), RBrace>>,
      <<WordTok("null")>>,
      <<LBrace, WordTok("bad"), WordTok("json")>>,
      <<LBrace, StrTok("topic"), Colon, StrTok("bitcoin"), Comma, RBrace>>,
      <<>> }

\* The function names an LLM may call: an advertised tool and one that is
\* never advertised.
FunctionNames == {"A", "C"}

\* The objects a caller may give as functionArgs.
FunctionObjects == {Obj({}), Obj({<<"topic", "bitcoin">>})}

\* The SyntaxError of JSON.parse.
SyntaxError == Err(<<"Unexpected token in JSON">>)

Parsed(v) == [ok |-> TRUE, value |-> v]
ParseFailed == [ok |-> FALSE, value |-> NullArg]

\* A member assigned to an object under construction: a repeated key keeps
\* the last value.
Put(acc, k, v) == {p \in acc : p[1] # k} \cup {<<k, v>>}

\* The members of an object, from the token after '{' or ',': a key, a colon
\* and a string value, then ',' and more members or the closing '}' at the
\* end of the text.
RECURSIVE ParseMembers(_, _)
ParseMembers(toks, acc) ==
    IF Len(toks) < 4 \/ toks[1].t # "string" \/ toks[2] # Colon \/ toks[3].t # "string"
    THEN ParseFailed
    ELSE IF toks[4] = RBrace
    THEN IF Len(toks) = 4 THEN Parsed(Obj(Put(acc, toks[1].v, toks[3].v))) ELSE ParseFailed
    ELSE IF toks[4] = Comma
    THEN ParseMembers(SubSeq(toks, 5, Len(toks)), Put(acc, toks[1].v, toks[3].v))
    ELSE ParseFailed

\* Variant of ParseJson that takes a text it cannot read for the empty
\* object.
ParseJson_Lenient(text) ==
    IF text = <<WordTok("null")>> THEN Parsed(NullArg)
    ELSE IF Len(text) >= 2 /\ text[1] = LBrace /\ text[2] # RBrace
            /\ ParseMembers(SubSeq(text, 2, Len(text)), {}).ok
    THEN ParseMembers(SubSeq(text, 2, Len(text)), {})
    ELSE Parsed(Obj({}))

\* JSON.parse(functionArgs), for texts of objects with string members and
\* of null.
ParseJson(text) ==
    IF text = <<WordTok("null")>> THEN Parsed(NullArg)
    ELSE IF Len(text) < 2 \/ text[1] # LBrace THEN ParseFailed
    ELSE IF text[2] = RBrace
    THEN IF Len(text) = 2 THEN Parsed(Obj({})) ELSE ParseFailed
    ELSE ParseMembers(SubSeq(text, 2, Len(text)), {})

\* Variant of ExecuteFunctionText that parses the text and then calls the
\* tool without the arguments.
ExecuteFunctionText_DropsArgs(s, name, text) ==
    /\ Free(s)
    /\ LET t == [Begin(s, "executeFunction", name, Text) EXCEPT !.text = text]
           p == ParseJson(text)
           c == CallToolCall(name, Obj({}))
       IN  tasks' = [tasks EXCEPT ![s] =
                        IF ~p.ok THEN Settled(t, Throw(SyntaxError))
                        ELSE IF c.threw THEN Settled(t, Throw(c.error))
                        ELSE Suspended(t, "callTool", c.req)]
    /\ UNCHANGED <<client, transport, connected, tools, nextHandle, opened, closeAttempted>>

\* executeFunction(name, functionArgs) with a string: the string is parsed,
\* which may throw, and the value goes to callTool.
ExecuteFunctionText(s, name, text) ==
    /\ Free(s)
    /\ LET t == [Begin(s, "executeFunction", name, Text) EXCEPT !.text = text]
           p == ParseJson(text)
           c == CallToolCall(name, DefaultArgs(p.value))
       IN  tasks' = [tasks EXCEPT ![s] =
                        IF ~p.ok THEN Settled(t, Throw(SyntaxError))
                        ELSE IF c.threw THEN Settled(t, Throw(c.error))
                        ELSE Suspended(t, "callTool", c.req)]
    /\ UNCHANGED <<client, transport, connected, tools, nextHandle, opened, closeAttempted>>

\* executeFunction(name, functionArgs) with an object: it goes to callTool
\* as it is.
ExecuteFunctionObject(s, name, m) ==
    /\ Free(s)
    /\ LET t == Begin(s, "executeFunction", name, m)
           c == CallToolCall(name, DefaultArgs(m))
       IN  tasks' = [tasks EXCEPT ![s] =
                        IF c.threw THEN Settled(t, Throw(c.error))
                        ELSE Suspended(t, "callTool", c.req)]
    /\ UNCHANGED <<client, transport, connected, tools, nextHandle, opened, closeAttempted>>

----------------------------------------------------------------------------
(* callTools *)

\* The requests a caller may put in a batch.
BatchCalls ==
    { [name |-> "A", args |-> Undefined],
      [name |-> "C", args |-> Obj({<<"topic", "bitcoin">>})] }

Batches == UNION {[1..n -> BatchCalls] : n \in 0..MaxBatch}

\* call.args || {}
OrEmpty(a) == IF a = Undefined THEN Obj({}) ELSE a

\* The promise of one mapped callback once its synchronous part ran: rejected
\* when callTool threw before its await, pending on its request otherwise.
Dispatch(call) ==
    LET c == CallToolCall(call.name, DefaultArgs(OrEmpty(call.args)))
    IN  IF c.threw
        THEN [st |-> "rejected", value |-> c.error, sent |-> <<>>]
        ELSE [st |-> "pending", value |-> <<>>, sent |-> <<c.req>>]

RECURSIVE Flatten(_)
Flatten(ss) == IF Len(ss) = 0 THEN <<>> ELSE ss[1] \o Flatten(Tail(ss))

\* The i-th promise settles while a promise dispatched before it is pending.
Overtakes(cs, i) == \E j \in 1..(i - 1) : cs[j].st = "pending"

\* Variant of CallTools with a loop that awaits each call before the next:
\* only the first request is sent before the first await.
CallTools_OneAtATime(s, batch) ==
    /\ Free(s)
    /\ LET t == [Begin(s, "callTools", "", Undefined) EXCEPT !.batch = batch]
           cs == [i \in 1..Len(batch) |-> Dispatch(batch[i])]
       IN  tasks' = [tasks EXCEPT ![s] =
                        IF EnsureConnectedThrows
                        THEN Settled(t, Throw(NotConnectedError))
                        ELSE [t EXCEPT !.pc = "allSettled",
                                       !.calls = cs,
                                       !.reqs = IF Len(cs) = 0 THEN <<>> ELSE cs[1].sent]]
    /\ UNCHANGED <<client, transport, connected, tools, nextHandle, opened, closeAttempted>>

\* callTools(calls) up to await Promise.allSettled(...): ensureConnected, then
\* calls.map runs every callback up to its own await, in input order.
CallTools(s, batch) ==
    /\ Free(s)
    /\ LET t == [Begin(s, "callTools", "", Undefined) EXCEPT !.batch = batch]
           cs == [i \in 1..Len(batch) |-> Dispatch(batch[i])]
       IN  tasks' = [tasks EXCEPT ![s] =
                        IF EnsureConnectedThrows
                        THEN Settled(t, Throw(NotConnectedError))
                        ELSE [t EXCEPT !.pc = "allSettled",
                                       !.calls = cs,
                                       !.reqs = Flatten([i \in 1..Len(cs) |-> cs[i].sent])]]
    /\ UNCHANGED <<client, transport, connected, tools, nextHandle, opened, closeAttempted>>

\* The endpoint answered the i-th request: the callback's promise fulfils
\* with { tool: call.name, result }.
CallToolsResolve(s, i, result) ==
    /\ tasks[s].op = "callTools"
    /\ tasks[s].pc = "allSettled"
    /\ i \in 1..Len(tasks[s].calls)
    /\ tasks[s].calls[i].st = "pending"
    /\ tasks' = [tasks EXCEPT ![s].calls[i].st = "fulfilled",
                              ![s].calls[i].value =
                                  [tool |-> tasks[s].batch[i].name, result |-> result],
                              ![s].overtaken = @ \/ Overtakes(tasks[s].calls, i)]
    /\ UNCHANGED <<client, transport, connected, tools, nextHandle, opened, closeAttempted>>

\* Variant of CallToolsReject that drops the cache when a request of the
\* batch fails.
CallToolsReject_DropsCache(s, i, cause) ==
    /\ tasks[s].op = "callTools"
    /\ tasks[s].pc = "allSettled"
    /\ i \in 1..Len(tasks[s].calls)
    /\ tasks[s].calls[i].st = "pending"
    /\ tools' = <<>>
    /\ tasks' = [tasks EXCEPT ![s].calls[i].st = "rejected",
                              ![s].calls[i].value = cause,
                              ![s].overtaken = @ \/ Overtakes(tasks[s].calls, i)]
    /\ UNCHANGED <<client, transport, connected, nextHandle, opened, closeAttempted>>

\* The i-th request failed: callTool rethrows and the callback's promise
\* rejects with the cause.
CallToolsReject(s, i, cause) ==
    /\ tasks[s].op = "callTools"
    /\ tasks[s].pc = "allSettled"
    /\ i \in 1..Len(tasks[s].calls)
    /\ tasks[s].calls[i].st = "pending"
    /\ tasks' = [tasks EXCEPT ![s].calls[i].st = "rejected",
                              ![s].calls[i].value = cause,
                              ![s].overtaken = @ \/ Overtakes(tasks[s].calls, i)]
    /\ UNCHANGED <<client, transport, connected, tools, nextHandle, opened, closeAttempted>>

\* result.reason?.message || 'Unknown error'
ReasonMessage(e) == IF e.isError /\ e.message # <<>> THEN e.message ELSE UnknownErrorMsg

\* results.map((result, index) => ...)
BatchRecord(call, settled) ==
    IF settled.st = "fulfilled"
    THEN settled.value
    ELSE [tool |-> call.name, error |-> ReasonMessage(settled.value)]

\* Variant of BatchRecords that returns the records last request first.
BatchRecords_Reversed(batch, cs) ==
    [i \in 1..Len(cs) |-> BatchRecord(batch[Len(cs) + 1 - i], cs[Len(cs) + 1 - i])]

BatchRecords(batch, cs) == [i \in 1..Len(cs) |-> BatchRecord(batch[i], cs[i])]

\* Variant of CallToolsReturn with Promise.all in place of Promise.allSettled:
\* the first rejected promise fails the whole batch.
CallToolsReturn_FailsFast(s) ==
    /\ tasks[s].op = "callTools"
    /\ tasks[s].pc = "allSettled"
    /\ \A i \in 1..Len(tasks[s].calls) : tasks[s].calls[i].st # "pending"
    /\ tasks' = [tasks EXCEPT ![s] =
                    IF \E i \in 1..Len(tasks[s].calls) : tasks[s].calls[i].st = "rejected"
                    THEN Settled(@, Throw(tasks[s].calls[
                             CHOOSE i \in 1..Len(tasks[s].calls) :
                                 tasks[s].calls[i].st = "rejected"].value))
                    ELSE Settled(@, Ok(BatchRecords(tasks[s].batch, tasks[s].calls)))]
    /\ UNCHANGED <<client, transport, connected, tools, nextHandle, opened, closeAttempted>>

\* Promise.allSettled resolved: every promise of the batch has settled.
CallToolsReturn(s) ==
    /\ tasks[s].op = "callTools"
    /\ tasks[s].pc = "allSettled"
    /\ \A i \in 1..Len(tasks[s].calls) : tasks[s].calls[i].st # "pending"
    /\ tasks' = [tasks EXCEPT ![s] = Settled(@, Ok(BatchRecords(tasks[s].batch, tasks[s].calls)))]
    /\ UNCHANGED <<client, transport, connected, tools, nextHandle, opened, closeAttempted>>

----------------------------------------------------------------------------
(* Specification: one caller, one call at a time *)

Main == "main"

Step(s) ==
    \/ IsConnected(s)
    \/ GetStatus(s)
    \/ GetTools(s)
    \/ \E m \in Mutations : CallerMutates(s, m)
    \/ \E name \in LookupNames : GetTool(s, name)
    \/ GetToolsWithDetails(s)
    \/ RefreshTools(s)
    \/ \E raw \in ServerLists : RefreshToolsResolve(s, raw)
    \/ \E cause \in Causes : RefreshToolsReject(s, cause)
    \/ Connect(s)
    \/ \E cause \in Causes : ConnectHandshakeReject(s, cause)
    \/ ConnectHandshakeResolve(s)
    \/ \E cause \in Causes : ConnectFetchReject(s, cause)
    \/ \E raw \in ServerLists : ConnectFetchResolve(s, raw)
    \/ ConnectFinish(s)
    \/ DisconnectNoClient(s)
    \/ Disconnect(s)
    \/ DisconnectCloseResolve(s)
    \/ \E cause \in Causes : DisconnectCloseReject(s, cause)
    \/ \E name \in Names, args \in ArgValues : CallTool(s, name, args)
    \/ \E name \in FunctionNames, text \in JsonTexts : ExecuteFunctionText(s, name, text)
    \/ \E name \in FunctionNames, m \in FunctionObjects : ExecuteFunctionObject(s, name, m)
    \/ \E result \in Results : CallToolResolve(s, result)
    \/ \E cause \in Causes : CallToolReject(s, cause)
    \/ \E batch \in Batches : CallTools(s, batch)
    \/ \E i \in 1..MaxBatch, result \in Results : CallToolsResolve(s, i, result)
    \/ \E i \in 1..MaxBatch, cause \in Causes : CallToolsReject(s, i, cause)
    \/ CallToolsReturn(s)

Next == Step(Main)

Spec == Init /\ [][Next]_vars

----------------------------------------------------------------------------
(* Specification: two callers whose calls overlap *)

\* The answers of the endpoint in this specification.
OverlapLists == {<<>>, <<Raw("A", "about A", "schemaA")>>}
OverlapCause == Err(<<"boom">>)
OverlapResult == [content |-> "data", isError |-> FALSE]

\* The session operations and callTool, each cut at its awaits: a caller may
\* start a call while the call of the other caller is suspended.
StepOverlap(s) ==
    \/ RefreshTools(s)
    \/ \E raw \in OverlapLists : RefreshToolsResolve(s, raw)
    \/ RefreshToolsReject(s, OverlapCause)
    \/ Connect(s)
    \/ ConnectHandshakeReject(s, OverlapCause)
    \/ ConnectHandshakeResolve(s)
    \/ ConnectFetchReject(s, OverlapCause)
    \/ \E raw \in OverlapLists : ConnectFetchResolve(s, raw)
    \/ ConnectFinish(s)
    \/ DisconnectNoClient(s)
    \/ Disconnect(s)
    \/ DisconnectCloseResolve(s)
    \/ DisconnectCloseReject(s, OverlapCause)
    \/ CallTool(s, "A", Undefined)
    \/ CallToolResolve(s, OverlapResult)
    \/ CallToolReject(s, OverlapCause)

NextOverlap == \E s \in Slots : StepOverlap(s)

SpecOverlap == Init /\ [][NextOverlap]_vars

----------------------------------------------------------------------------
(* Specification: callTools on a session, every request of a batch settling *)

\* A new instance, or a connected session with one of the caches the
\* endpoint can fill.
InitBatch ==
    /\ \/ /\ client = Null
          /\ connected = FALSE
          /\ tools = <<>>
          /\ opened = {}
       \/ /\ client = 1
          /\ connected = TRUE
          /\ tools \in {MapTools(raw) : raw \in ServerLists}
          /\ opened = {1}
    /\ transport = client
    /\ nextHandle = client + 1
    /\ closeAttempted = {}
    /\ tasks = [s \in Slots |-> NoTask]

\* The endpoint answers a pending request of the batch.
BatchSettles ==
    \/ \E i \in 1..MaxBatch, result \in Results : CallToolsResolve(Main, i, result)
    \/ \E i \in 1..MaxBatch, cause \in Causes : CallToolsReject(Main, i, cause)

NextBatch ==
    \/ \E batch \in Batches : CallTools(Main, batch)
    \/ BatchSettles
    \/ CallToolsReturn(Main)

\* Every pending request is answered in the end, and the continuation of
\* await Promise.allSettled runs once the promise has resolved.
SpecBatch ==
    /\ InitBatch
    /\ [][NextBatch]_vars
    /\ WF_vars(BatchSettles)
    /\ WF_vars(CallToolsReturn(Main))

----------------------------------------------------------------------------
(* Specification: getToolsWithDetails over the caches an endpoint can fill *)

\* The longest tool list in this specification.
MaxCached == 2

\* Tools an endpoint may advertise: with and without a description, with
\* each of the schemas and with none.
DetailTools ==
    { Raw("A", "about A", "schemaA"),
      Raw("A", "other A", "schemaA2"),
      Raw("B", UNDEFINED, UNDEFINED),
      Raw("B", "", "schemaReq"),
      Raw("C", "about C", "schemaEmpty"),
      Raw("C", UNDEFINED, "schemaNull"),
      Raw("B", "about B", "schemaA") }

DetailLists == UNION {[1..n -> DetailTools] : n \in 0..MaxCached}

\* A new instance, or a connected session whose cache is the mapped answer
\* of the endpoint.
InitDetails ==
    /\ \/ /\ client = Null
          /\ connected = FALSE
          /\ tools = <<>>
          /\ opened = {}
       \/ /\ client = 1
          /\ connected = TRUE
          /\ tools \in {MapTools(raw) : raw \in DetailLists}
          /\ opened = {1}
    /\ transport = client
    /\ nextHandle = client + 1
    /\ closeAttempted = {}
    /\ tasks = [s \in Slots |-> NoTask]

NextDetails == GetToolsWithDetails(Main)

SpecDetails == InitDetails /\ [][NextDetails]_vars

----------------------------------------------------------------------------
(* Specification: the constructor over the keys it may be given *)

\* The longest key in this specification.
MaxKeyLen == 4

\* The characters of a key: a space, a tab, and one that is not white space.
Chars == {" ", "TAB", "k"}
WhiteSpace == {" ", "TAB"}

\* The strings a caller may give as apiKey, and `undefined` given by a
\* caller that is not type-checked.
KeyStrings == UNION {[1..n -> Chars] : n \in 0..MaxKeyLen}

\* String.prototype.trim
RECURSIVE TrimStart(_)
TrimStart(q) == IF Len(q) > 0 /\ Head(q) \in WhiteSpace THEN TrimStart(Tail(q)) ELSE q

RECURSIVE TrimEnd(_)
TrimEnd(q) ==
    IF Len(q) > 0 /\ q[Len(q)] \in WhiteSpace THEN TrimEnd(SubSeq(q, 1, Len(q) - 1)) ELSE q

Trim(q) == TrimEnd(TrimStart(q))

InvalidCredential ==
    Err(<<"LunarCrush API key is required. Get one at https://lunarcrush.com/developers/api">>)

\* Variant of ConstructorOutcome that stores the key as given.
ConstructorOutcome_Untrimmed(given, chars) ==
    IF ~given \/ Trim(chars) = <<>> THEN Throw(InvalidCredential)
    ELSE Ok([apiKey |-> chars])

\* The constructor with apiKey undefined (given = FALSE) or the string
\* `chars`: it throws, or the instance has the trimmed key.
ConstructorOutcome(given, chars) ==
    IF ~given \/ Trim(chars) = <<>> THEN Throw(InvalidCredential)
    ELSE Ok([apiKey |-> Trim(chars)])

\* new LunarCrushMCP(apiKey): the fields have the values of their
\* initialisers, and the constructor sets apiKey alone.
Construct(s, given, chars) ==
    /\ tasks[s].op = "none"
    /\ tasks' = [tasks EXCEPT ![s] =
                    Settled([Begin(s, "constructor", "", IF given THEN Text ELSE Undefined)
                                EXCEPT !.text = chars],
                            ConstructorOutcome(given, chars))]
    /\ UNCHANGED <<client, transport, connected, tools, nextHandle, opened, closeAttempted>>

NextCtor ==
    \/ \E chars \in KeyStrings : Construct(Main, TRUE, chars)
    \/ Construct(Main, FALSE, <<>>)

SpecCtor == Init /\ [][NextCtor]_vars

----------------------------------------------------------------------------
(* Properties *)

\* The call of the single caller: the one in progress, or the last one.
Call == tasks[Main]

Done(op) == Call.op = op /\ Call.pc = "done"

Failed(op) == Done(op) /\ Call.out.status = "error"

Returned(op) == Done(op) /\ Call.out.status = "ok"

\* isConnected() as it would have answered when the call started.
WasConnected == Call.pre.connected /\ Call.pre.client # Null

\* The call left connected, client, transport and tools as it found them.
FieldsAsBefore ==
    /\ connected = Call.pre.connected
    /\ client = Call.pre.client
    /\ transport = Call.pre.transport
    /\ tools = Call.pre.tools

StartsWith(e, piece) == e.isError /\ Len(e.message) >= 1 /\ e.message[1] = piece

\* C1: a connect() that fails, at whatever step and from whatever state,
\* fails with a ConnectionError and leaves the session disconnected:
\* isConnected() is false afterwards.
C1_FailedConnectLeavesDisconnected ==
    Failed("connect") =>
        /\ StartsWith(Call.out.value, ConnectPrefix)
        /\ ~IsConnectedValue

\* C2: while a connect() that began disconnected is under way the session is
\* not connected; a connect() that returned got a successful handshake and a
\* successful tool-list fetch, isConnected() is true and toolCount is the
\* length of the fetched list.
C2_ConnectedOnlyAfterHandshakeAndFetch ==
    /\ (Call.op = "connect" /\ Call.pc # "done" /\ ~Call.pre.connected) => ~connected
    /\ (Failed("connect") /\ ~Call.pre.connected) => ~connected
    /\ Returned("connect") =>
        /\ Len(Call.resps) = 2
        /\ Call.resps[1].ok
        /\ Call.resps[2].ok
        /\ IsConnectedValue
        /\ GetStatusValue.toolCount = Len(Call.resps[2].value)

C2_Witness ==
    /\ Returned("connect")
    /\ Len(Call.resps) = 2
    /\ Len(Call.resps[2].value) = 2
    /\ GetStatusValue.toolCount = 2

\* C3: a refreshTools() whose list-tools request failed throws a
\* ToolListError and leaves the cache as it was: getTools() still returns
\* the tools of before, in the same order.
C3_FailedRefreshKeepsCache ==
    (Done("refreshTools") /\ Len(Call.resps) = 1 /\ ~Call.resps[1].ok) =>
        /\ Call.out.status = "error"
        /\ StartsWith(Call.out.value, RefreshPrefix)
        /\ tools = Call.pre.tools
        /\ WasConnected => GetToolsOutcome = Ok(Call.pre.tools)

C3_Witness ==
    /\ Failed("refreshTools")
    /\ Len(Call.resps) = 1
    /\ WasConnected
    /\ Len(Call.pre.tools) = 2
    /\ GetToolsOutcome = Ok(Call.pre.tools)

\* The pieces of a message, as a set.
Pieces(msg) == {msg[i] : i \in 1..Len(msg)}

\* C4: callTool on a connected session with a name that is not in the cache
\* throws UnknownTool, its message names every cached tool, and no request is
\* sent.
C4_UnknownToolNoRequest ==
    (Call.op = "callTool" /\ WasConnected
        /\ \A i \in 1..Len(Call.pre.tools) : Call.pre.tools[i].name # Call.name) =>
        /\ Call.pc = "done"
        /\ Call.out.status = "error"
        /\ Call.out.value.isError
        /\ SubSeq(Call.out.value.message, 1, 3)
               = <<"Tool '", Call.name, "' not found. Available tools: ">>
        /\ \A i \in 1..Len(Call.pre.tools) :
               Call.pre.tools[i].name
                   \in Pieces(SubSeq(Call.out.value.message, 4, Len(Call.out.value.message)))
        /\ Call.reqs = <<>>
        /\ Call.resps = <<>>

C4_Witness ==
    /\ Failed("callTool")
    /\ WasConnected
    /\ Call.name = "C"
    /\ Len(Call.pre.tools) = 2
    /\ Call.reqs = <<>>

\* C5: callTool on a connected session with a cached name sends exactly one
\* call-tool request with that name and the arguments as given (an empty
\* object when none were given), and returns the endpoint's result as it is,
\* error flag or not.
C5_CallForwardedVerbatim ==
    (Call.op = "callTool" /\ WasConnected
        /\ \E i \in 1..Len(Call.pre.tools) : Call.pre.tools[i].name = Call.name) =>
        /\ Len(Call.reqs) = 1
        /\ Call.reqs[1].method = "callTool"
        /\ Call.reqs[1].handle = Call.pre.client
        /\ Call.reqs[1].name = Call.name
        /\ Call.reqs[1].args = (IF Call.args = Undefined THEN Obj({}) ELSE Call.args)
        /\ (Call.pc = "done" /\ Call.resps[1].ok) => Call.out = Ok(Call.resps[1].value)

C5_Witness ==
    /\ Returned("callTool")
    /\ Call.args = Obj({<<"topic", "bitcoin">>})
    /\ Call.reqs[1].args = Call.args
    /\ Call.out.value.isError

\* The number of requests the call sent once an answer was a failure.
NoRequestAfterFailure(t) ==
    \A k \in 1..Len(t.resps) : ~t.resps[k].ok => Len(t.reqs) = k

\* C6: when the endpoint fails a forwarded call, callTool throws that very
\* error after its single request; refreshTools and callTool send at most one
\* request per call and its failure ends that call with an error; no
\* operation sends a request again after one of its requests failed.
C6_EndpointErrorPropagatesNoRetry ==
    /\ (Done("callTool") /\ Len(Call.resps) = 1 /\ ~Call.resps[1].ok) =>
        /\ Call.out = Throw(Call.resps[1].value)
        /\ Len(Call.reqs) = 1
    /\ Call.op \in {"refreshTools", "callTool"} =>
        /\ Len(Call.reqs) <= 1
        /\ Len(Call.resps) <= Len(Call.reqs)
        /\ (\E k \in 1..Len(Call.resps) : ~Call.resps[k].ok) =>
               (Call.pc = "done" /\ Call.out.status = "error")
    /\ NoRequestAfterFailure(Call)
    /\ Call.op = "callTools" => Len(Call.reqs) <= Len(Call.batch)

C6_Witness ==
    /\ Failed("callTool")
    /\ Len(Call.reqs) = 1
    /\ Len(Call.resps) = 1
    /\ Call.out.value = NonError

\* The i-th promise of the batch was rejected, by callTool itself or by the
\* endpoint.
RejectedAt(i) == Call.calls[i].st = "rejected"

FulfilledAt(i) == Call.calls[i].st = "fulfilled"

\* C7 as claimed: callTools never fails as a whole.
C7_NeverFailsAsWhole == Done("callTools") => Call.out.status = "ok"

\* C7: callTools on a connected session never fails as a whole: it returns
\* one record per request, a failure record {tool, error} for every request
\* that failed (unknown tool, endpoint error) and a success record
\* {tool, result} for every other one.  On a disconnected session it fails as
\* a whole with NotConnected and sends nothing.
C7_ConnectedBatchNeverFails ==
    Call.op = "callTools" =>
        /\ ~WasConnected =>
            /\ Call.pc = "done"
            /\ Call.out = Throw(NotConnectedError)
            /\ Call.reqs = <<>>
        /\ WasConnected =>
            /\ Call.out.status # "error"
            /\ Call.pc = "done" =>
                /\ Call.out.status = "ok"
                /\ Len(Call.out.value) = Len(Call.batch)
                /\ \A i \in 1..Len(Call.batch) :
                    /\ RejectedAt(i) => DOMAIN Call.out.value[i] = {"tool", "error"}
                    /\ FulfilledAt(i) => DOMAIN Call.out.value[i] = {"tool", "result"}

C7_Witness ==
    /\ Returned("callTools")
    /\ Len(Call.batch) = 2
    /\ FulfilledAt(1)
    /\ RejectedAt(2)
    /\ Call.batch[2].name = "C"
    /\ DOMAIN Call.out.value[1] = {"tool", "result"}
    /\ DOMAIN Call.out.value[2] = {"tool", "error"}

\* C8 as claimed: the i-th record of the returned sequence carries the i-th
\* request's name and that invocation's result, or that invocation's error
\* message.
C8_RecordsCarryOwnMessage ==
    Returned("callTools") =>
        /\ Len(Call.out.value) = Len(Call.batch)
        /\ \A i \in 1..Len(Call.batch) :
            /\ Call.out.value[i].tool = Call.batch[i].name
            /\ FulfilledAt(i) => Call.out.value[i].result = Call.calls[i].value.result
            /\ RejectedAt(i) => Call.out.value[i].error = Call.calls[i].value.message

\* C8: in whatever order the invocations complete, the returned sequence
\* is as long as the input and its i-th record carries the i-th request's
\* name and that invocation's result, or that invocation's error message,
\* 'Unknown error' standing for an error without a message.
C8_RecordsFollowInputOrder ==
    Returned("callTools") =>
        /\ Len(Call.out.value) = Len(Call.batch)
        /\ \A i \in 1..Len(Call.batch) :
            /\ Call.out.value[i].tool = Call.batch[i].name
            /\ FulfilledAt(i) => Call.out.value[i].result = Call.calls[i].value.result
            /\ RejectedAt(i) =>
                Call.out.value[i].error =
                    (IF Call.calls[i].value.isError /\ Call.calls[i].value.message # <<>>
                     THEN Call.calls[i].value.message
                     ELSE <<"Unknown error">>)

C8_Witness ==
    /\ Returned("callTools")
    /\ Len(Call.batch) = 2
    /\ Call.overtaken
    /\ Call.batch[1].name = "A"
    /\ Call.batch[2].name = "A"
    /\ FulfilledAt(1)
    /\ RejectedAt(2)
    /\ Call.out.value[2].error = <<"boom">>

\* C9: disconnect() never fails, whatever close() does, and ends with
\* isConnected() false and an empty cache; a disconnect() right after a
\* disconnect() sends no close and leaves every field as it found it.
C9_DisconnectResetsAndIsIdempotent ==
    Call.op = "disconnect" =>
        /\ Call.out.status # "error"
        /\ Call.pc = "done" =>
            /\ Call.out.status = "ok"
            /\ ~IsConnectedValue
            /\ ~GetStatusValue.connected
            /\ tools = <<>>
        /\ (Call.pc = "done" /\ Call.pre.lastDisconnect # "none") =>
            /\ Call.reqs = <<>>
            /\ FieldsAsBefore

C9_Witness ==
    /\ Returned("disconnect")
    /\ Call.pre.lastDisconnect = "closeFailed"
    /\ Call.reqs = <<>>
    /\ ~IsConnectedValue

\* C10: on a disconnected session getTools, getTool and callTool throw
\* NotConnected for every name and arguments, send no request and leave the
\* fields as they were.
C10_DisconnectedCallsFailNotConnected ==
    (Call.op \in {"getTools", "getTool", "callTool"} /\ ~WasConnected) =>
        /\ Call.pc = "done"
        /\ Call.out = Throw(Err(NotConnectedMsg))
        /\ Call.reqs = <<>>
        /\ FieldsAsBefore

C10_Witness ==
    /\ Failed("callTool")
    /\ ~WasConnected
    /\ Call.pre.client # Null
    /\ Len(Call.pre.tools) = 2
    /\ Call.name = "C"
    /\ Call.out = Throw(Err(NotConnectedMsg))

\* The session had no open transport when the call started: no client, or
\* a client whose handshake never succeeded.
HadNoOpenTransport == Call.pre.client = Null \/ Call.pre.client \notin opened

\* C11: refreshTools() on a session without an open transport (never
\* connected, last connect() failed, after disconnect()) throws
\* NotInitialized and sends no list-tools request.
C11_RefreshWithoutTransportNotInitialized ==
    (Call.op = "refreshTools" /\ HadNoOpenTransport) =>
        /\ Call.pc = "done"
        /\ Call.out = Throw(Err(NotInitializedMsg))
        /\ Call.reqs = <<>>

\* C12: a refreshTools() that succeeds leaves as cache exactly the list
\* the endpoint returned, tool by tool in the endpoint's order, whatever the
\* cache held before, and returns that cache.
C12_RefreshReplacesCacheWholesale ==
    Returned("refreshTools") =>
        /\ Len(Call.resps) = 1
        /\ Call.resps[1].ok
        /\ Len(tools) = Len(Call.resps[1].value)
        /\ \A i \in 1..Len(tools) :
            /\ tools[i].name = Call.resps[1].value[i].name
            /\ tools[i].description = Call.resps[1].value[i].description
            /\ tools[i].inputSchema = Call.resps[1].value[i].inputSchema
        /\ Call.out.value = tools

C12_Witness ==
    /\ Returned("refreshTools")
    /\ ToolNames(Call.pre.tools) = <<"A", "B">>
    /\ ToolNames(tools) = <<"A", "A">>
    /\ Call.out.value = tools

\* The value executeFunction was given: the parsed text, or the object.
GivenValue == IF Call.args = Text THEN ParseJson(Call.text).value ELSE Call.args

\* The text given to executeFunction is well-formed JSON.
WellFormedText == Call.args = Text /\ ParseJson(Call.text).ok

\* The call in progress or completed behaves as callTool(name, v) does from
\* the state it started in: NotConnected or UnknownTool without a request,
\* or one call-tool request with the name and v, whose answer is the call's
\* outcome.
BehavesAsCallTool(name, v) ==
    IF ~WasConnected
    THEN Call.pc = "done" /\ Call.out = Throw(NotConnectedError) /\ Call.reqs = <<>>
    ELSE IF Find(Call.pre.tools, name) = NoTool
    THEN /\ Call.pc = "done"
         /\ Call.out = Throw(UnknownToolError(name, Call.pre.tools))
         /\ Call.reqs = <<>>
    ELSE /\ Call.reqs = <<Req("callTool", Call.pre.client, name, v)>>
         /\ Call.pc = "done" =>
               /\ Len(Call.resps) = 1
               /\ Call.out = IF Call.resps[1].ok THEN Ok(Call.resps[1].value)
                             ELSE Throw(Call.resps[1].value)

\* C13: executeFunction(name, s) with a well-formed JSON text s behaves as
\* callTool(name, parse(s)), and executeFunction(name, mapping) as
\* callTool(name, mapping), in every state: the same failure without a
\* request, or the same request and the same outcome for the same answer.
C13_ExecuteFunctionIsCallTool ==
    /\ Call.op = "callTool" => BehavesAsCallTool(Call.name, DefaultArgs(Call.args))
    /\ (Call.op = "executeFunction" /\ WellFormedText) =>
           BehavesAsCallTool(Call.name, GivenValue)
    /\ (Call.op = "executeFunction" /\ Call.args # Text) =>
           BehavesAsCallTool(Call.name, Call.args)

C13_Witness ==
    /\ Returned("executeFunction")
    /\ Call.text = <<LBrace, StrTok("topic"), Colon, StrTok("bitcoin"), RBrace>>
    /\ Call.reqs = <<Req("callTool", Call.pre.client, "A", Obj({<<"topic", "bitcoin">>}))>>
    /\ Call.out.value.isError

\* The strings among JsonTexts that are not JSON: '{bad json', an object with
\* a trailing comma, and the empty string.
MalformedTexts ==
    { <<LBrace, WordTok("bad"), WordTok("json")>>,
      <<LBrace, StrTok("topic"), Colon, StrTok("bitcoin"), Comma, RBrace>>,
      <<>> }

\* C14: executeFunction with a string that is not well-formed JSON fails
\* with the parse error in every state, connected or not, before any
\* request, and changes nothing.
C14_MalformedTextFailsBeforeAnything ==
    (Call.op = "executeFunction" /\ Call.args = Text /\ Call.text \in MalformedTexts) =>
        /\ Call.pc = "done"
        /\ Call.out = Throw(SyntaxError)
        /\ Call.reqs = <<>>
        /\ FieldsAsBefore

C14_Witness ==
    /\ Failed("executeFunction")
    /\ Call.text = <<LBrace, WordTok("bad"), WordTok("json")>>
    /\ ~WasConnected
    /\ Call.out = Throw(SyntaxError)

\* C15: getTools() returns a copy of the cache: after the caller adds,
\* removes or reorders entries of the returned array, the cache is as it was
\* when getTools() was called, and getTools, getTool, getStatus and callTool
\* answer from it as they would have before.
C15_GetToolsReturnsCopy ==
    (Call.op = "getTools" /\ Call.mutated) =>
        /\ tools = Call.pre.tools
        /\ GetToolsOutcome = Ok(Call.pre.tools)
        /\ GetStatusValue.toolCount = Len(Call.pre.tools)
        /\ GetStatusValue.tools = ToolNames(Call.pre.tools)
        /\ \A name \in Names :
            /\ GetToolOutcome(name) = Ok(Find(Call.pre.tools, name))
            /\ CallToolCall(name, Obj({})).threw = (Find(Call.pre.tools, name) = NoTool)

C15_Witness ==
    /\ Call.op = "getTools"
    /\ Call.mutated
    /\ ToolNames(Call.out.value) = <<"B", "A">>
    /\ ToolNames(tools) = <<"A", "B">>

\* C16: on a connected instance getTool(name) returns null when no cached
\* tool has exactly that name (a name differing in case is another name),
\* and otherwise the first cached tool of that name.
C16_GetToolExactFirstMatch ==
    (Call.op = "getTool" /\ WasConnected) =>
        /\ Call.pc = "done"
        /\ Call.out.status = "ok"
        /\ Call.reqs = <<>>
        /\ IF \A i \in 1..Len(Call.pre.tools) : Call.pre.tools[i].name # Call.name
           THEN Call.out.value = NoTool
           ELSE \E i \in 1..Len(Call.pre.tools) :
                   /\ Call.pre.tools[i].name = Call.name
                   /\ \A j \in 1..(i - 1) : Call.pre.tools[j].name # Call.name
                   /\ Call.out.value = Call.pre.tools[i]

C16_Witness ==
    /\ Returned("getTool")
    /\ Call.name = "A"
    /\ ToolNames(Call.pre.tools) = <<"A", "A">>
    /\ Call.out.value.description = "about A"
    /\ Call.pre.tools[2].description = "other A"

\* getTool("a") while "A" is cached returned null.
C16_CaseWitness ==
    /\ Returned("getTool")
    /\ Call.name = "a"
    /\ ToolNames(Call.pre.tools) = <<"A">>
    /\ Call.out.value = NoTool

\* The non-null property of `schema` under `key`, if there is one.
HasProperty(schema, key) ==
    \E i \in 1..Len(PropertiesOf(schema)) : PropertiesOf(schema)[i].key = key

PropertyAt(schema, key) ==
    PropertiesOf(schema)[CHOOSE i \in 1..Len(PropertiesOf(schema)) :
                            PropertiesOf(schema)[i].key = key]

\* The property is a union with an enumerated variant and declares no type
\* of its own; `vals` are the values of the first such variant.
ResolvedAsEnum(prop, vals) ==
    /\ prop.type = UNDEFINED
    /\ prop.hasAnyOf
    /\ \E j \in 1..Len(prop.anyOf) :
        /\ prop.anyOf[j].hasEnum
        /\ prop.anyOf[j].enum = vals
        /\ \A k \in 1..(j - 1) : ~prop.anyOf[k].hasEnum

\* The parameter summary `info` is the one the schema calls for.
SummaryOf(schema, info) ==
    /\ info.required = (IF schema.hasRequired THEN schema.required ELSE <<>>)
    /\ \A key \in {"topic", "metrics", "interval", "limit", "note", "sort", "id", "extra"} :
        /\ Includes(info.optional, key) <=>
               (HasProperty(schema, key) /\ ~Includes(info.required, key))
        /\ \A i, j \in 1..Len(info.optional) : info.optional[i] = info.optional[j] => i = j
        /\ \A t \in {"string", "number", "null"} :
               <<key, t>> \in info.types <=>
                   (HasProperty(schema, key) /\ PropertyAt(schema, key).type = t)
        /\ <<key, "enum">> \in info.types <=>
               (HasProperty(schema, key)
                    /\ \E e \in info.enums : e[1] = key /\ ResolvedAsEnum(PropertyAt(schema, key), e[2]))
        /\ \A e \in info.enums : e[1] = key =>
               /\ <<key, "enum">> \in info.types
               /\ ResolvedAsEnum(PropertyAt(schema, key), e[2])
    /\ \A e \in info.types : e[2] \in {"string", "number", "null", "enum"}

\* C17: for each cached tool getToolsWithDetails() yields parameterInfo
\* with required = the schema's required list (empty when absent), optional
\* = the property names not in required, types[p] = the declared type of p,
\* or "enum" when p is a union (anyOf) with an enumerated variant, and
\* enums[p] = that variant's values for exactly the properties resolved as
\* enum; the schema with required [topic] and properties topic (string) and
\* metrics (anyOf with enum price, volume) gives required [topic], optional
\* [metrics], types {topic: string, metrics: enum}, enums {metrics: [price,
\* volume]}.
C17_ParameterInfoFollowsSchema ==
    Returned("getToolsWithDetails") =>
        /\ Len(Call.out.value) = Len(Call.pre.tools)
        /\ \A i \in 1..Len(Call.pre.tools) :
            /\ Call.out.value[i].name = Call.pre.tools[i].name
            /\ SummaryOf(SchemaOf(Call.pre.tools[i].inputSchema),
                         Call.out.value[i].parameterInfo)
            /\ Call.pre.tools[i].inputSchema = "schemaA" =>
                   Call.out.value[i].parameterInfo =
                       [required |-> <<"topic">>,
                        optional |-> <<"metrics">>,
                        types |-> {<<"topic", "string">>, <<"metrics", "enum">>},
                        enums |-> {<<"metrics", <<"price", "volume">>>>}]

C17_Witness ==
    /\ Returned("getToolsWithDetails")
    /\ Len(Call.pre.tools) = 2
    /\ Call.pre.tools[1].inputSchema = "schemaA"
    /\ Call.pre.tools[2].inputSchema = "schemaA2"
    /\ Call.out.value[1].parameterInfo.optional = <<"metrics">>
    /\ Call.out.value[2].parameterInfo.enums = {<<"interval", <<"1d", "1w">>>>}
    /\ Call.out.value[2].parameterInfo.types =
           {<<"interval", "enum">>, <<"limit", "number">>}

\* C18: getToolsWithDetails() is a pure derivation from the cache: in every
\* state and for every cached schema, missing or malformed fields included,
\* it returns one entry per cached tool without failing, sends no request
\* and changes no field.
C18_DetailsNeverFail ==
    Call.op = "getToolsWithDetails" =>
        /\ Call.pc = "done"
        /\ Call.out.status = "ok"
        /\ Len(Call.out.value) = Len(Call.pre.tools)
        /\ Call.reqs = <<>>
        /\ FieldsAsBefore

\* C19: getStatus() succeeds in every state and is a pure read: it returns
\* the connected flag, toolCount = the number of cached tools and tools =
\* the cached names in cache order, changes no field and sends no request.
C19_GetStatusPureRead ==
    Call.op = "getStatus" =>
        /\ Call.pc = "done"
        /\ Call.out.status = "ok"
        /\ Call.out.value.connected = Call.pre.connected
        /\ Call.out.value.toolCount = Len(Call.pre.tools)
        /\ Len(Call.out.value.tools) = Len(Call.pre.tools)
        /\ \A i \in 1..Len(Call.pre.tools) : Call.out.value.tools[i] = Call.pre.tools[i].name
        /\ Call.reqs = <<>>
        /\ FieldsAsBefore

C19_Witness ==
    /\ Returned("getStatus")
    /\ Call.out.value = [connected |-> TRUE, toolCount |-> 2, tools |-> <<"A", "A">>]
    /\ Call.pre.tools[2].description = "other A"
    /\ tools = Call.pre.tools

\* The key given to the constructor is the string `apiKey` with white space
\* before and after it and none at its own ends.
TrimmedFrom(apiKey, chars) ==
    /\ Len(apiKey) > 0
    /\ apiKey[1] \notin WhiteSpace
    /\ apiKey[Len(apiKey)] \notin WhiteSpace
    /\ \E a \in 1..Len(chars) :
        /\ a + Len(apiKey) - 1 <= Len(chars)
        /\ SubSeq(chars, a, a + Len(apiKey) - 1) = apiKey
        /\ \A i \in 1..Len(chars) :
               (i < a \/ i > a + Len(apiKey) - 1) => chars[i] \in WhiteSpace

\* C20: the constructor given an empty or white-space-only key fails with
\* InvalidCredential and there is no instance; given any other key it
\* succeeds, the instance holds the key trimmed, nothing was sent or opened,
\* and the instance is disconnected with an empty cache.
C20_ConstructorChecksAndTrimsKey ==
    (Call.op = "constructor" /\ Call.args = Text) =>
        /\ Call.pc = "done"
        /\ Call.reqs = <<>>
        /\ opened = {}
        /\ IF \A i \in 1..Len(Call.text) : Call.text[i] \in WhiteSpace
           THEN Call.out = Throw(InvalidCredential)
           ELSE /\ Call.out.status = "ok"
                /\ TrimmedFrom(Call.out.value.apiKey, Call.text)
                /\ ~IsConnectedValue
                /\ ~connected /\ client = Null /\ transport = Null
                /\ tools = <<>>

C20_Witness ==
    /\ Returned("constructor")
    /\ Call.text = <<" ", "k", " ", "k">>
    /\ Call.out.value.apiKey = <<"k", " ", "k">>
    /\ ~connected
    /\ tools = <<>>

\* The constructor given only white space threw.
C20_WhiteSpaceWitness ==
    /\ Failed("constructor")
    /\ Call.text = <<" ", "TAB">>

\* A step that changes the connected state, as isConnected() answers it or
\* as the connected flag holds it: to connected only as a connect() completes
\* without an error, to disconnected only in a disconnect().
SessionChange ==
    /\ ((~IsConnectedValue /\ IsConnectedValue') \/ (~connected /\ connected')) =>
           /\ tasks'[Main].op = "connect"
           /\ tasks'[Main].pc = "done"
           /\ tasks'[Main].out.status = "ok"
    /\ ((IsConnectedValue /\ ~IsConnectedValue') \/ (connected /\ ~connected')) =>
           tasks'[Main].op = "disconnect"

\* C21: the session starts disconnected, becomes connected only at the
\* completion of a successful connect() and disconnected again only through
\* disconnect(); no step of any other operation, successful or failed,
\* changes the connected state.
C21_OnlyConnectAndDisconnectChangeState ==
    /\ ~IsConnectedValue
    /\ ~connected
    /\ [][SessionChange]_vars

C21_Witness ==
    /\ Failed("executeFunction")
    /\ Len(Call.resps) = 1
    /\ WasConnected
    /\ IsConnectedValue
    /\ connected
    /\ Call.out = Throw(Err(<<"boom">>))

\* The call in slot s took the step.
Stepped(s) == tasks'[s] # tasks[s]

\* The step is the successful end of a tool-list fetch, in refreshTools() or
\* in connect(), or a step of disconnect().
FetchedOrDisconnected(s) ==
    \/ /\ tasks[s].pc = "listTools"
       /\ tasks'[s].op \in {"refreshTools", "connect"}
       /\ Len(tasks'[s].resps) = Len(tasks[s].resps) + 1
       /\ tasks'[s].resps[Len(tasks'[s].resps)].ok
    \/ tasks'[s].op = "disconnect"

CacheFrame ==
    /\ tools' # tools => \E s \in Slots : Stepped(s) /\ FetchedOrDisconnected(s)
    /\ \A s \in Slots :
        (Stepped(s) /\ tasks'[s].op \in {"callTool", "executeFunction", "callTools"}) =>
            /\ tools' = tools
            /\ connected' = connected

\* C22: the cache changes only in the successful end of a tool-list fetch
\* (refreshTools, also the one inside connect) and in disconnect; every step
\* of callTool, executeFunction and callTools, whatever the number of
\* invocations in flight, their completion order and their outcome, leaves
\* the cache and the connected flag as they were.
C22_CallsLeaveCacheAndFlag == [][CacheFrame]_vars

C22_Witness ==
    /\ Done("callTools")
    /\ Len(Call.calls) = 2
    /\ Call.overtaken
    /\ Call.calls[1].st = "rejected"
    /\ Call.calls[2].st = "fulfilled"
    /\ \A i \in 1..2 : Len(Call.calls[i].sent) = 1
    /\ FieldsAsBefore
    /\ connected

\* C24: in every reachable state, those reached when disconnect() runs
\* while a connect() or a refreshTools() waits for the endpoint included, the
\* connected flag is not true while the client is absent: what getStatus()
\* reports as connected is what isConnected() answers.
C24_FlagImpliesClient ==
    /\ connected => client # Null
    /\ GetStatusValue.connected = IsConnectedValue

\* The number of requests of the batch whose tool is in the cache.
RECURSIVE CachedCalls(_)
CachedCalls(batch) ==
    IF Len(batch) = 0 THEN 0
    ELSE (IF \E i \in 1..Len(tools) : tools[i].name = batch[1].name THEN 1 ELSE 0)
             + CachedCalls(Tail(batch))

Awaiting == Call.op = "callTools" /\ Call.pc = "allSettled"

\* While callTools waits, whatever has settled so far, every request of the
\* batch that passed the lookup has been sent, in batch order.
DispatchedAll ==
    Awaiting =>
        /\ Len(Call.reqs) = CachedCalls(Call.batch)
        /\ \A i \in 1..Len(Call.batch) :
               (\E k \in 1..Len(tools) : tools[k].name = Call.batch[i].name) =>
                   \E r \in 1..Len(Call.reqs) : Call.reqs[r].name = Call.batch[i].name

\* callTools has returned only with every invocation completed or failed.
ReturnedWithAllSettled ==
    Returned("callTools") =>
        /\ Len(Call.calls) = Len(Call.batch)
        /\ \A i \in 1..Len(Call.calls) : Call.calls[i].st \in {"fulfilled", "rejected"}
        /\ Len(Call.out.value) = Len(Call.batch)

\* C23: callTools sends every request of the batch without waiting for the
\* answer to another one, returns only when every invocation has completed
\* or failed, and, every invocation settling in the end, returns in the end.
C23_DispatchesAllAndReturnsWhenSettled ==
    /\ [](DispatchedAll /\ ReturnedWithAllSettled)
    /\ Awaiting ~> Done("callTools")

C23_Witness ==
    /\ Awaiting
    /\ Len(Call.batch) = 2
    /\ Len(Call.reqs) = 2
    /\ Call.calls[1].st = "pending"
    /\ Call.calls[2].st = "rejected"
    /\ Call.calls[2].sent # <<>>

\* C25: between calls of connect, refreshTools and disconnect, each
\* succeeding or failing, the cache is empty whenever the session is not
\* connected: getStatus().toolCount is 0 whenever getStatus().connected is
\* false.
C25_DisconnectedCacheEmpty ==
    (Call.pc = "done" /\ Call.op \in {"none", "connect", "refreshTools", "disconnect"}
        /\ ~GetStatusValue.connected) =>
        /\ GetStatusValue.toolCount = 0
        /\ tools = <<>>

\* The handles connect() opened on which no close has been attempted.
OpenHandles == opened \ closeAttempted

\* C26: the adapter owns at most one open client handle at a time, and once
\* a disconnect() has completed a close has been attempted on every handle
\* that connect() opened before it.
C26_NoHandleLeftOpen ==
    /\ Cardinality(OpenHandles) <= 1
    /\ Done("disconnect") => OpenHandles = {}

============================================================================
